---- MODULE Spec2Model ----
(***************************************************************************)
(* Model of markdown_settings.py: the Settings handler of Markdown         *)
(* Preview.  A Settings object wraps the host editor's settings store,     *)
(* layers the dictionary _overrides on top of it and resolves the          *)
(* basepath / references / destination fields of a document's front        *)
(* matter against the file system.                                         *)
(*                                                                         *)
(* Paths are Python strings, modelled as sequences of one-character        *)
(* strings; the os.path functions are the POSIX ones (sys.platform does    *)
(* not start with 'win', see IsWin).  The file system is a tree of nodes   *)
(* without symbolic links.                                                 *)
(***************************************************************************)
EXTENDS Integers, Sequences, FiniteSets, TLC

VARIABLES
    fs,          \* the file system: node -> "none" | "file" | "dir"
    file_name,   \* Settings.file_name (a path or None)
    host,        \* the host settings store behind Settings._sub_settings
    overrides,   \* Settings._overrides
    call,        \* the last operation called on the object, with its arguments
    ret,         \* what that call returned
    ncalls       \* number of state-changing steps taken so far

vars == <<fs, file_name, host, overrides, call, ret, ncalls>>

----------------------------------------------------------------------------
(* Bounds of the model. *)

\* state-changing steps (mutating calls and file-system changes) per run
MaxCalls == 1
\* longest 'references' list of a front matter
MaxRefs == 1

----------------------------------------------------------------------------
(* Python values. *)

\* Python's None where a path is expected
None == <<"None">>

Max(S) == CHOOSE x \in S : \A y \in S : y <= x

----------------------------------------------------------------------------
(* Strings and os.path (posixpath). *)

startswith(s, c) == Len(s) >= 1 /\ s[1] = c

endswith(s, c) == Len(s) >= 1 /\ s[Len(s)] = c

\* s.find('/', from0) with 0-based positions; -1 when there is none
find_sep(s, from0) ==
    LET S == {i \in (from0 + 1)..Len(s) : s[i] = "/"}
    IN  IF S = {} THEN -1 ELSE (CHOOSE i \in S : \A j \in S : i <= j) - 1

\* s.rfind('/') with 0-based positions; -1 when there is none
rfind_sep(s) ==
    LET S == {i \in 1..Len(s) : s[i] = "/"}
    IN  IF S = {} THEN -1 ELSE Max(S) - 1

RECURSIVE rstrip_sep(_)
rstrip_sep(s) ==
    IF endswith(s, "/") THEN rstrip_sep(SubSeq(s, 1, Len(s) - 1)) ELSE s

all_sep(s) == \A i \in 1..Len(s) : s[i] = "/"

\* s.split('/')
RECURSIVE split_sep(_)
split_sep(s) ==
    LET i == find_sep(s, 0)
    IN  IF i = -1 THEN <<s>>
        ELSE <<SubSeq(s, 1, i)>> \o split_sep(SubSeq(s, i + 2, Len(s)))

\* '/'.join(comps)
RECURSIVE join_sep(_)
join_sep(comps) ==
    IF comps = <<>> THEN <<>>
    ELSE IF Len(comps) = 1 THEN comps[1]
    ELSE comps[1] \o <<"/">> \o join_sep(Tail(comps))

\* the home directory os.path.expanduser substitutes for '~'
Home == <<"/", "b">>

\* os.path.expanduser: '~' and '~/...' expand to the home directory; the
\* password database knows no user, so '~name' is left alone
expanduser(path) ==
    IF ~startswith(path, "~") THEN path
    ELSE LET j == find_sep(path, 1)
             i == IF j < 0 THEN Len(path) ELSE j
         IN  IF i # 1 THEN path
             ELSE LET r == rstrip_sep(Home) \o SubSeq(path, i + 1, Len(path))
                  IN  IF r = <<>> THEN <<"/">> ELSE r

\* os.path.join(a, b)
path_join(a, b) ==
    IF startswith(b, "/") THEN b
    ELSE IF a = <<>> \/ endswith(a, "/") THEN a \o b
    ELSE a \o <<"/">> \o b

\* os.path.dirname
dirname(p) ==
    LET i == rfind_sep(p) + 1
        head == SubSeq(p, 1, i)
    IN  IF head # <<>> /\ ~all_sep(head) THEN rstrip_sep(head) ELSE head

\* os.path.basename
basename(p) ==
    LET i == rfind_sep(p) + 1
    IN  SubSeq(p, i + 1, Len(p))

\* the component loop of os.path.normpath
RECURSIVE norm_comps(_, _, _)
norm_comps(comps, new_comps, initial_slashes) ==
    IF comps = <<>> THEN new_comps
    ELSE LET comp == Head(comps)
             dotdot == <<".", ".">>
         IN  IF comp = <<>> \/ comp = <<".">>
             THEN norm_comps(Tail(comps), new_comps, initial_slashes)
             ELSE IF \/ comp # dotdot
                     \/ (initial_slashes = 0 /\ new_comps = <<>>)
                     \/ (new_comps # <<>> /\ new_comps[Len(new_comps)] = dotdot)
             THEN norm_comps(Tail(comps), Append(new_comps, comp), initial_slashes)
             ELSE IF new_comps # <<>>
             THEN norm_comps(Tail(comps), SubSeq(new_comps, 1, Len(new_comps) - 1),
                             initial_slashes)
             ELSE norm_comps(Tail(comps), new_comps, initial_slashes)

\* os.path.normpath
normpath(path) ==
    IF path = <<>> THEN <<".">>
    ELSE LET initial_slashes ==
                 IF ~startswith(path, "/") THEN 0
                 ELSE IF Len(path) >= 2 /\ path[2] = "/"
                         /\ ~(Len(path) >= 3 /\ path[3] = "/") THEN 2
                 ELSE 1
             body == join_sep(norm_comps(split_sep(path), <<>>, initial_slashes))
             full == IF initial_slashes = 0 THEN body
                     ELSE IF initial_slashes = 1 THEN <<"/">> \o body
                     ELSE <<"/", "/">> \o body
         IN  IF full = <<>> THEN <<".">> ELSE full

----------------------------------------------------------------------------
(* The file system: a node is the sequence of names from the root. *)

ND == <<<<"d">>>>
NDF == <<<<"d">>, <<"f">>>>
NDR == <<<<"d">>, <<"r">>>>
NB == <<<<"b">>>>
NBR == <<<<"b">>, <<"r">>>>

Nodes == {ND, NDF, NDR, NB, NBR}

Kinds == {"none", "file", "dir"}

\* the working directory of the process: the root
CwdNode == <<>>

Kind(f, node) ==
    IF node = <<>> THEN "dir"
    ELSE IF node \in DOMAIN f THEN f[node]
    ELSE "none"

Parent(node) == IF node = <<>> THEN <<>> ELSE SubSeq(node, 1, Len(node) - 1)

\* a directory entry exists only in a directory
FsConsistent(f) ==
    \A n \in Nodes : f[n] # "none" => Kind(f, Parent(n)) = "dir"

\* path resolution as stat(2) does it: every step needs a directory to step from
RECURSIVE Walk(_, _, _)
Walk(f, node, comps) ==
    IF comps = <<>> THEN Kind(f, node)
    ELSE IF Kind(f, node) # "dir" THEN "none"
    ELSE LET c == Head(comps)
         IN  IF c = <<>> \/ c = <<".">> THEN Walk(f, node, Tail(comps))
             ELSE IF c = <<".", ".">> THEN Walk(f, Parent(node), Tail(comps))
             ELSE Walk(f, Append(node, c), Tail(comps))

Stat(f, p) ==
    IF p = <<>> THEN "none"
    ELSE Walk(f, IF startswith(p, "/") THEN <<>> ELSE CwdNode, split_sep(p))

\* os.path.exists
exists(p) == Stat(fs, p) # "none"

\* os.path.isdir
isdir(p) == Stat(fs, p) = "dir"

----------------------------------------------------------------------------
(* Python values of the settings layer.  Every value is a record, a        *)
(* dictionary is a function on the keys it holds.                          *)

\* Python's None where a setting value is expected
NoValue == [none |-> TRUE]

\* the empty dictionary {}
EmptyDict == <<>>

is_list(v) == "list" \in DOMAIN v

\* isinstance(v, dict)
is_dict(v) == DOMAIN v \cap {"int", "str", "list", "path", "none", "exts"} = {}

\* d[k] = v
dict_set(d, k, v) == (k :> v) @@ d

\* d.get(k, default)
dict_get(d, k, default) == IF k \in DOMAIN d THEN d[k] ELSE default

\* str(v) of a scalar: the decimal numeral of an int, a string itself
py_str(v) == IF "int" \in DOMAIN v THEN [str |-> ToString(v.int)] ELSE v

----------------------------------------------------------------------------
(* Settings: the pure parts. *)

BUILTIN_KEYS == {"basepath", "references", "destination"}

\* sys.platform.startswith('win')
IsWin == FALSE

Letters == {"a", "b", "c", "d", "e", "f", "g", "h", "i", "j", "k", "l", "m",
            "n", "o", "p", "q", "r", "s", "t", "u", "v", "w", "x", "y", "z",
            "A", "B", "C", "D", "E", "F", "G", "H", "I", "J", "K", "L", "M",
            "N", "O", "P", "Q", "R", "S", "T", "U", "V", "W", "X", "Y", "Z"}

\* re_win_drive.match(pth) is not None, for (^[A-Za-z]{1}:(?:\\|/))
re_win_drive_match(pth) ==
    /\ Len(pth) >= 3
    /\ pth[1] \in Letters
    /\ pth[2] = ":"
    /\ pth[3] \in {"\\", "/"}

is_abs(pth) ==
    IF pth = None THEN FALSE
    ELSE IF IsWin
    THEN re_win_drive_match(pth) \/ (Len(pth) >= 2 /\ pth[1] = "/" /\ pth[2] = "/")
    ELSE startswith(pth, "/")

\* get_base_path without the os.path.isdir test
get_base_path_no_isdir(basepath) ==
    LET bp == IF basepath # None THEN expanduser(basepath) ELSE basepath
    IN  IF bp # None /\ exists(bp) /\ is_abs(bp) THEN bp
        ELSE IF file_name # None /\ exists(file_name) THEN dirname(file_name)
        ELSE None

get_base_path(basepath) ==
    LET bp == IF basepath # None THEN expanduser(basepath) ELSE basepath
    IN  IF bp # None /\ exists(bp) /\ is_abs(bp) /\ isdir(bp) THEN bp
        ELSE IF file_name # None /\ exists(file_name) THEN dirname(file_name)
        ELSE None

\* bases with the basepath tried before the file's directory
bases_basepath_first(current_dir, basepath) == <<basepath, current_dir>>

\* the tuple the loop of resolve_meta_path goes through
bases(current_dir, basepath) == <<current_dir, basepath>>

\* for base in (...): the first base under which the target exists
RECURSIVE first_found(_, _)
first_found(bs, target) ==
    IF bs = <<>> THEN target
    ELSE IF Head(bs) # None /\ exists(path_join(Head(bs), target))
    THEN path_join(Head(bs), target)
    ELSE first_found(Tail(bs), target)

\* resolve_meta_path raises when _overrides["builtin"] is no dictionary
resolve_raises(ov) == ~is_dict(ov["builtin"])

\* resolve_meta_path against the overrides ov (when it does not raise)
resolve_in(ov, target) ==
    LET basepath == dict_get(ov["builtin"], "basepath", None)
        current_dir == IF file_name = None THEN None ELSE dirname(file_name)
        t == IF target # None THEN expanduser(target) ELSE target
    IN  IF t = None THEN None
        ELSE IF ~is_abs(t) THEN first_found(bases(current_dir, basepath), t)
        ELSE IF ~exists(t) THEN None
        ELSE t

resolve_meta_path(target) == resolve_in(overrides, target)

\* extended_decode, the object_hook of parse_md_ext
extended_decode(d) ==
    IF "pyname" \in DOMAIN d THEN [function |-> d.pyname] ELSE d

parse_md_ext ==
    LET extensions == dict_get(host, "markdown_extensions", EmptyDict)
    IN  IF "exts" \in DOMAIN extensions
        THEN [exts |-> [i \in DOMAIN extensions.exts |->
                            extended_decode(extensions.exts[i])]]
        ELSE extensions

\* self._sub_settings.get(key, default)
sub_get(key, default) == dict_get(host, key, default)

\* get that asks the host store before the overrides
get_host_first(key, default) ==
    IF key \in DOMAIN host THEN host[key]
    ELSE IF key \in DOMAIN overrides THEN overrides[key]
    ELSE default

get(key, default) ==
    IF key \in DOMAIN overrides THEN overrides[key]
    ELSE IF key = "markdown_extensions" THEN parse_md_ext
    ELSE sub_get(key, default)

has(key) ==
    LET found == key \in DOMAIN overrides
    IN  IF ~found THEN key \in DOMAIN host ELSE found

\* set that leaves a key alone once it is overridden (setdefault)
set_keep_existing(ov, key, value) == ov @@ (key :> value)

\* the overrides after set(key, value)
set(ov, key, value) == dict_set(ov, key, value)

\* the overrides after add_meta(meta), and whether it raised
add_meta(ov, meta) ==
    LET old == dict_get(ov, "meta", EmptyDict)
    IN  IF ~is_dict(old) THEN [ov |-> ov, raised |-> TRUE]
        ELSE [ov |-> dict_set(ov, "meta", old @@ meta), raised |-> FALSE]

----------------------------------------------------------------------------
(* apply_frontmatter.  A front matter is the sequence of the dictionary's  *)
(* items in iteration order; the result is the overrides the call leaves   *)
(* behind and whether it raised.                                           *)

has_key(fm, k) == \E i \in DOMAIN fm : fm[i].key = k

value_of(fm, k) == fm[CHOOSE i \in DOMAIN fm : fm[i].key = k].value

\* str(v) for v in value, or str(value)
meta_value(value) ==
    IF is_list(value)
    THEN [list |-> [i \in DOMAIN value.list |-> py_str(value.list[i])]]
    ELSE py_str(value)

\* the loop over the references: the resolved files that are no directories
RECURSIVE resolve_refs(_, _)
resolve_refs(ov, value) ==
    IF value = <<>> THEN <<>>
    ELSE LET fname == resolve_in(ov, Head(value).path)
             rest == resolve_refs(ov, Tail(value))
         IN  IF fname # None /\ ~isdir(fname) THEN <<normpath(fname)>> \o rest
             ELSE rest

\* key == "references"
apply_references(ov, value) ==
    LET refs == IF is_list(value) THEN value.list ELSE <<value>>
    IN  IF resolve_raises(ov) THEN [ov |-> ov, raised |-> TRUE]
        ELSE [ov |-> dict_set(ov, "builtin",
                              dict_set(ov["builtin"], "references",
                                       resolve_refs(ov, refs))),
              raised |-> FALSE]

\* key == "destination"
apply_destination(ov, value) ==
    IF value.path = None THEN [ov |-> ov, raised |-> FALSE]
    ELSE IF resolve_raises(ov) THEN [ov |-> ov, raised |-> TRUE]
    ELSE LET directory == resolve_in(ov, dirname(value.path))
             fname == IF directory # None
                      THEN path_join(directory, basename(value.path))
                      ELSE value.path
         IN  IF ~exists(fname) \/ ~isdir(fname)
             THEN [ov |-> dict_set(ov, "builtin",
                                   dict_set(ov["builtin"], "destination", fname)),
                   raised |-> FALSE]
             ELSE [ov |-> ov, raised |-> FALSE]

\* the settings dictionary kept whole, as one override named 'settings'
apply_settings_nested(ov, value) ==
    [ov |-> dict_set(ov, "settings", value), raised |-> FALSE]

\* key == "settings" and isinstance(value, dict)
apply_settings(ov, value) == [ov |-> value @@ ov, raised |-> FALSE]

\* the else branch: the item goes to the meta dictionary
apply_meta(ov, key, value) ==
    IF ~is_dict(ov["meta"]) THEN [ov |-> ov, raised |-> TRUE]
    ELSE [ov |-> dict_set(ov, "meta", dict_set(ov["meta"], key, meta_value(value))),
          raised |-> FALSE]

\* one round of the loop over frontmatter.items()
apply_item(ov, key, value) ==
    IF key = "settings" /\ is_dict(value) THEN apply_settings(ov, value)
    ELSE IF key \in BUILTIN_KEYS
    THEN IF key = "references" THEN apply_references(ov, value)
         ELSE IF key = "destination" THEN apply_destination(ov, value)
         ELSE [ov |-> ov, raised |-> FALSE]
    ELSE apply_meta(ov, key, value)

RECURSIVE apply_items(_, _)
apply_items(st, items) ==
    IF items = <<>> \/ st.raised THEN st
    ELSE apply_items(apply_item(st.ov, Head(items).key, Head(items).value),
                     Tail(items))

\* "Handle basepath first"
apply_basepath(ov, fm) ==
    IF ~has_key(fm, "basepath") THEN [ov |-> ov, raised |-> FALSE]
    ELSE IF ~is_dict(ov["builtin"]) THEN [ov |-> ov, raised |-> TRUE]
    ELSE [ov |-> dict_set(ov, "builtin",
                          dict_set(ov["builtin"], "basepath",
                                   get_base_path(value_of(fm, "basepath").path))),
          raised |-> FALSE]

\* del frontmatter["basepath"]
without_basepath(fm) == SelectSeq(fm, LAMBDA it : it.key # "basepath")

apply_frontmatter(ov, fm) ==
    apply_items(apply_basepath(ov, fm), without_basepath(fm))

----------------------------------------------------------------------------
(* The inputs the model draws from. *)

PathR == <<"r">>
PathB == <<"/", "b">>
PathBR == <<"/", "b", "/", "r">>
PathDF == <<"/", "d", "/", "f">>
PathO == <<"o">>

\* the document: an unsaved view has no file name
FileNames == {None, PathDF}

\* the file systems a run may start in
InitFs ==
    {f \in [Nodes -> Kinds] :
        /\ FsConsistent(f)
        /\ f[ND] = "dir"
        /\ f[NDF] # "dir"
        /\ f[NDR] # "dir"
        /\ f[NB] # "file"
        /\ f[NBR] # "dir"}

\* the host's settings file: k1 and markdown_extensions are set, k2 is not
HostStore ==
    [k1 |-> [int |-> 1],
     markdown_extensions |-> [exts |-> <<[name |-> "toc"], [pyname |-> "m.f"]>>]]

SettingKeys == {"k1", "k2", "markdown_extensions", "builtin", "meta"}

SettingValues == {[int |-> 2], [str |-> "x"]}

Defaults == {NoValue, [int |-> 0]}

Metas == {[title |-> [str |-> "a"]], [author |-> [str |-> "b"]]}

Targets == {None, PathR, PathBR, PathB, <<"~", "/", "r">>, <<"d", "/", ".", "/", "r">>}

Basepaths == {None, PathB, <<"b">>, PathDF, <<"~">>}

RefTargets == {PathR}

SeqsUpTo(S, n) == UNION {[1..m -> S] : m \in 0..n}

FMKeys == {"basepath", "references", "destination", "settings"}

FMValues(k) ==
    CASE k = "basepath" -> {[path |-> PathB]}
      [] k = "references" ->
             {[list |-> s] : s \in SeqsUpTo({[path |-> t] : t \in RefTargets}, MaxRefs)}
                 \cup {[path |-> PathB]}
      [] k = "destination" -> {[path |-> PathO]}
      [] k = "settings" ->
             {[k1 |-> [int |-> 2], k2 |-> [str |-> "x"]],
              [builtin |-> [str |-> "x"]],
              [list |-> <<[int |-> 7], [str |-> "t"]>>]}

KeySeqs ==
    {ks \in SeqsUpTo(FMKeys, Cardinality(FMKeys)) :
        \A i, j \in DOMAIN ks : i # j => ks[i] # ks[j]}

FMFor(ks) ==
    {[i \in DOMAIN ks |-> [key |-> ks[i], value |-> vs[i]]] :
        vs \in {v \in [DOMAIN ks -> UNION {FMValues(k) : k \in FMKeys}] :
                    \A i \in DOMAIN ks : v[i] \in FMValues(ks[i])}}

\* the front matter dictionaries, each in every iteration order
FrontMatters == UNION {FMFor(ks) : ks \in KeySeqs}

----------------------------------------------------------------------------
(* The state machine. *)

NoCall == [op |-> "none"]

\* __init__
Init ==
    /\ fs \in InitFs
    /\ file_name \in FileNames
    /\ host = HostStore
    /\ overrides = [builtin |-> [references |-> <<>>,
                                 basepath |-> get_base_path(None)],
                    meta |-> EmptyDict]
    /\ call = NoCall
    /\ ret = NoValue
    /\ ncalls = 0

Get(key, default) ==
    /\ call = NoCall
    /\ call' = [op |-> "get", key |-> key, default |-> default]
    /\ ret' = get(key, default)
    /\ UNCHANGED <<fs, file_name, host, overrides, ncalls>>

Has(key) ==
    /\ call = NoCall
    /\ call' = [op |-> "has", key |-> key]
    /\ ret' = [bool |-> has(key)]
    /\ UNCHANGED <<fs, file_name, host, overrides, ncalls>>

ResolveMetaPath(target) ==
    /\ call = NoCall
    /\ call' = [op |-> "resolve_meta_path", target |-> target]
    /\ ret' = IF resolve_raises(overrides) THEN [raised |-> TRUE]
              ELSE [path |-> resolve_meta_path(target)]
    /\ UNCHANGED <<fs, file_name, host, overrides, ncalls>>

GetBasePath(basepath) ==
    /\ call = NoCall
    /\ call' = [op |-> "get_base_path", basepath |-> basepath]
    /\ ret' = [path |-> get_base_path(basepath)]
    /\ UNCHANGED <<fs, file_name, host, overrides, ncalls>>

Set(key, value) ==
    /\ call = NoCall
    /\ ncalls < MaxCalls
    /\ call' = [op |-> "set", key |-> key, value |-> value]
    /\ overrides' = set(overrides, key, value)
    /\ ret' = NoValue
    /\ ncalls' = ncalls + 1
    /\ UNCHANGED <<fs, file_name, host>>

AddMeta(meta) ==
    /\ call = NoCall
    /\ ncalls < MaxCalls
    /\ call' = [op |-> "add_meta", meta |-> meta]
    /\ overrides' = add_meta(overrides, meta).ov
    /\ ret' = [raised |-> add_meta(overrides, meta).raised]
    /\ ncalls' = ncalls + 1
    /\ UNCHANGED <<fs, file_name, host>>

ApplyFrontmatter(fm) ==
    /\ call = NoCall
    /\ ncalls < MaxCalls
    /\ call' = [op |-> "apply_frontmatter", frontmatter |-> fm]
    /\ LET r == apply_frontmatter(overrides, fm)
       IN  /\ overrides' = r.ov
           /\ ret' = [raised |-> r.raised]
    /\ ncalls' = ncalls + 1
    /\ UNCHANGED <<fs, file_name, host>>

\* the caller takes the result and goes on
Return ==
    /\ call # NoCall
    /\ call' = NoCall
    /\ ret' = NoValue
    /\ UNCHANGED <<fs, file_name, host, overrides, ncalls>>

\* between two calls, something outside creates or removes a file or directory
FsChange(node, kind) ==
    /\ call = NoCall
    /\ ncalls < MaxCalls
    /\ fs[node] # kind
    /\ FsConsistent([fs EXCEPT ![node] = kind])
    /\ fs' = [fs EXCEPT ![node] = kind]
    /\ ncalls' = ncalls + 1
    /\ UNCHANGED <<file_name, host, overrides, call, ret>>

Next ==
    \/ \E key \in SettingKeys, default \in Defaults : Get(key, default)
    \/ \E key \in SettingKeys : Has(key)
    \/ \E target \in Targets : ResolveMetaPath(target)
    \/ \E basepath \in Basepaths : GetBasePath(basepath)
    \/ \E key \in SettingKeys, value \in SettingValues : Set(key, value)
    \/ \E meta \in Metas : AddMeta(meta)
    \/ \E fm \in FrontMatters : ApplyFrontmatter(fm)
    \/ Return
    \/ \E node \in Nodes, kind \in Kinds : FsChange(node, kind)

Spec == Init /\ [][Next]_vars

----------------------------------------------------------------------------
(* The claims. *)

\* C1: get(key, default) returns the override whenever the key is overridden
\* ('markdown_extensions' included), whatever the host store holds for the key
\* and whatever the default is; the parsed 'markdown_extensions' or the host
\* store (with the default for a key it does not hold) answers only when the
\* key has no override.
C1_GetChecksOverridesFirst ==
    call.op = "get" =>
        IF call.key \in DOMAIN overrides THEN ret = overrides[call.key]
        ELSE IF call.key = "markdown_extensions"
        THEN ret = [exts |-> <<[name |-> "toc"], [function |-> "m.f"]>>]
        ELSE IF call.key \in DOMAIN host THEN ret = host[call.key]
        ELSE ret = call.default

\* an overridden key that the host store holds too, asked for with a default
C1_Witness ==
    /\ call.op = "get"
    /\ call.key \in DOMAIN overrides
    /\ call.key \in DOMAIN host
    /\ call.default # NoValue
    /\ ret # host[call.key]
    /\ ret # call.default

\* what holds in the state set(key, value) leaves behind
SetPost == get(call.key, NoValue) = call.value /\ has(call.key)

\* C2: set(key, value) only adds to the overrides: afterwards get(key) returns
\* value and has(key) is true, every other override is as it was, and no step
\* of any operation changes the host settings store.
C2_SetOnlyAddsAnOverride ==
    [][/\ host' = host
       /\ (call.op = "none" /\ call'.op = "set") =>
              /\ SetPost'
              /\ DOMAIN overrides' = DOMAIN overrides \cup {call'.key}
              /\ \A k \in DOMAIN overrides \ {call'.key} :
                     overrides'[k] = overrides[k]]_vars

\* set has replaced an override that was there, for a key the host holds not
C2_Witness ==
    /\ call.op = "set"
    /\ call.key = "builtin"
    /\ overrides["builtin"] = call.value
    /\ "meta" \in DOMAIN overrides
    /\ ~("builtin" \in DOMAIN host)

\* the settings dictionary of the front matter of the last call
SettingsOf(c) == value_of(c.frontmatter, "settings")

GivenSettingsDict(c) ==
    /\ c.op = "apply_frontmatter"
    /\ has_key(c.frontmatter, "settings")
    /\ is_dict(SettingsOf(c))

\* every (subkey, subvalue) of the settings dictionary answers get(subkey)
SettingsPost ==
    \A subkey \in DOMAIN SettingsOf(call) :
        /\ get(subkey, NoValue) = SettingsOf(call)[subkey]
        /\ get(subkey, [int |-> 0]) = SettingsOf(call)[subkey]

MetaHasSettings(ov) == is_dict(ov["meta"]) /\ "settings" \in DOMAIN ov["meta"]

\* C3: when apply_frontmatter is given a 'settings' key whose value is a
\* dictionary and returns, every (subkey, subvalue) of it is a top-level
\* override, get(subkey) returns subvalue whatever the host store holds, and
\* the call adds no 'settings' entry to the meta dictionary.
C3_FrontmatterSettingsOverride ==
    [][(call.op = "none" /\ GivenSettingsDict(call') /\ ~ret'.raised) =>
           /\ SettingsPost'
           /\ \A subkey \in DOMAIN SettingsOf(call') :
                  /\ subkey \in DOMAIN overrides'
                  /\ overrides'[subkey] = SettingsOf(call')[subkey]
           /\ MetaHasSettings(overrides') => MetaHasSettings(overrides)]_vars

\* the front matter overrode k1, for which the host store holds another value,
\* and k2, for which it holds none
C3_Witness ==
    /\ GivenSettingsDict(call)
    /\ ~ret.raised
    /\ {"k1", "k2"} \subseteq DOMAIN SettingsOf(call)
    /\ "k1" \in DOMAIN host
    /\ host["k1"] # SettingsOf(call)["k1"]
    /\ get("k1", NoValue) = SettingsOf(call)["k1"]
    /\ Len(call.frontmatter) > 1

\* the directory of the current file, as resolve_meta_path computes it
CurrentDir == IF file_name = None THEN None ELSE dirname(file_name)

Under(base, t) == base # None /\ exists(path_join(base, t))

\* C4: resolve_meta_path returns an absolute target only if it exists and None
\* otherwise; a relative target found under the directory of the current file
\* is returned from there, and from under the basepath only when the current
\* directory has no such entry.
C4_ResolveOrder ==
    (call.op = "resolve_meta_path" /\ "path" \in DOMAIN ret /\ call.target # None) =>
        LET t == expanduser(call.target)
            basepath == overrides["builtin"].basepath
        IN  /\ startswith(t, "/") =>
                ret.path = (IF Stat(fs, t) # "none" THEN t ELSE None)
            /\ (~startswith(t, "/") /\ Under(CurrentDir, t)) =>
                ret.path = path_join(CurrentDir, t)
            /\ (~startswith(t, "/") /\ ~Under(CurrentDir, t) /\ Under(basepath, t)) =>
                ret.path = path_join(basepath, t)

\* a relative target that exists under the current directory and under another
\* basepath
C4_Witness ==
    /\ call.op = "resolve_meta_path"
    /\ "path" \in DOMAIN ret
    /\ call.target = PathR
    /\ Under(CurrentDir, PathR)
    /\ Under(overrides["builtin"].basepath, PathR)
    /\ overrides["builtin"].basepath # CurrentDir
    /\ ret.path = <<"/", "d", "/", "r">>

\* the directory of the document, when it is a file that exists
DocumentDir ==
    IF file_name # None /\ Stat(fs, file_name) # "none" THEN dirname(file_name)
    ELSE None

\* C5: get_base_path(basepath) returns the user-expanded basepath exactly when
\* it is given, exists, is absolute and is a directory, and otherwise the
\* directory of the document (None when the document has no file that exists);
\* the builtin basepath starts as get_base_path(None).
C5_GetBasePath ==
    /\ call.op = "get_base_path" =>
           LET b == call.basepath
               valid == /\ b # None
                        /\ Stat(fs, expanduser(b)) = "dir"
                        /\ startswith(expanduser(b), "/")
           IN  ret.path = (IF valid THEN expanduser(b) ELSE DocumentDir)
    /\ ncalls = 0 => overrides["builtin"].basepath = DocumentDir

\* a basepath that is an existing absolute file, not a directory: the
\* document's directory is returned instead
C5_Witness ==
    /\ call.op = "get_base_path"
    /\ call.basepath = PathDF
    /\ Stat(fs, PathDF) = "file"
    /\ file_name = PathDF
    /\ ret.path = <<"/", "d">>

\* the overrides of a fresh object whose builtin basepath is b
WithBasepath(b) ==
    [builtin |-> [references |-> <<>>, basepath |-> b], meta |-> EmptyDict]

\* the list apply_frontmatter makes of a 'references' value
RefList(value) == IF is_list(value) THEN value.list ELSE <<value>>

\* C6: when a front matter holds 'basepath' together with 'references', the
\* call leaves in the builtin override the references resolved against
\* get_base_path(basepath value), in whatever order the dictionary holds its
\* keys.
C6_BasepathFirst ==
    (/\ call.op = "apply_frontmatter"
     /\ has_key(call.frontmatter, "basepath")
     /\ has_key(call.frontmatter, "references")) =>
        LET new == get_base_path(value_of(call.frontmatter, "basepath").path)
            refs == RefList(value_of(call.frontmatter, "references"))
        IN  /\ ~ret.raised
            /\ is_dict(overrides["builtin"])
            /\ overrides["builtin"].basepath = new
            /\ overrides["builtin"].references = resolve_refs(WithBasepath(new), refs)

\* C7: after apply_frontmatter has processed a 'references' value, every entry
\* of the builtin 'references' override exists in the file system and is no
\* directory.
C7_ReferencesExist ==
    (/\ call.op = "apply_frontmatter"
     /\ has_key(call.frontmatter, "references")
     /\ ~ret.raised
     /\ is_dict(overrides["builtin"])) =>
        \A i \in DOMAIN overrides["builtin"].references :
            Stat(fs, overrides["builtin"].references[i]) = "file"

====
